---- MODULE Spec2Model ----
(***************************************************************************)
(* ymlog: a logger that renders entries into one growing YAML-flavoured    *)
(* text stream.  The model follows src/src/logger.rs: the Tracker (a stack *)
(* of LastBlockType frames), the YmLog logger (tracker, threshold, sink)   *)
(* and the op-code interpreter YmLog::log; and src/src/formatter.rs: the   *)
(* functions of Style and the YamlFormatter.                               *)
(*                                                                         *)
(* The specifications share the definitions: Spec logs string messages     *)
(* with the op-codes '+', '-', 'r' and '_' down to MaxDepth levels under    *)
(* every threshold; SpecTracker does so through a logger that writes every *)
(* entry; SpecOps logs every shape of entry with every op-code but '+';    *)
(* SpecLevels logs one message at every level under every threshold;       *)
(* SpecSink logs to a sink that can fail; SpecShared is two threads        *)
(* logging through the lock around the logger; SpecFormat hands strings to *)
(* the formatter.                                                          *)
(*                                                                         *)
(* Text is a sequence of one-character strings, so that the byte-level     *)
(* operations of the code (split_once, split_at, slicing, replace,         *)
(* trim_end) are computed as the code computes them.                       *)
(***************************************************************************)
EXTENDS Integers, Sequences, FiniteSets, TLC

VARIABLES depth, log_level, logger, sink, pc, block, has_printed, last, letters, mutex,
          formatter

vars == <<depth, log_level, logger, sink, pc, block, has_printed, last, letters, mutex,
          formatter>>

(***************************************************************************)
(* Bounds of the exploration.                                              *)
(***************************************************************************)
\* the length of the op-code sequences that equivalences of tracker states are
\* compared over
MaxFollow == 3

\* the op-codes of one call where several callers share the logger
MaxOps == 2

\* the bound on the sink where every shape of entry is explored
MaxOpsSink == 6

\* '+' is explored while the tracker stack holds fewer than MaxDepth frames.
MaxDepth == 4

\* a sink that fails has accepted at most MaxPartial bytes of the fragment
MaxPartial == 1

\* the strings handed to the formatter hold at most MaxValue characters
MaxValue == 3

\* fold_string is called with the wrap widths 1..MaxWrap
MaxWrap == 3

\* the formatter is called at the nesting depths 0..MaxNest
MaxNest == 1

\* A write is explored while the sink holds at most MaxSink bytes; set_output
\* attaches a new empty sink.
MaxSink == 9

(***************************************************************************)
(* Characters and text.                                                    *)
(***************************************************************************)
NL == "\n"

SP == " "

QUOTE == "\""

BSLASH == "\\"

\* " ".repeat(n)
Spaces(n) == [i \in 1..n |-> SP]

\* str::starts_with at offset i: pat occurs in text at positions i..i+Len(pat)-1
MatchAt(text, pat, i) ==
    /\ i + Len(pat) - 1 <= Len(text)
    /\ \A j \in 1..Len(pat) : text[i + j - 1] = pat[j]

\* positions at which pat occurs in text
Occurrences(text, pat) == {i \in 1..Len(text) : MatchAt(text, pat, i)}

\* smallest element of a non-empty set of naturals
Min(S) == CHOOSE x \in S : \A y \in S : x <= y

\* str::contains(char)
Contains(text, c) == \E i \in 1..Len(text) : text[i] = c

\* str::split_once(pat): the text before and after the first occurrence of pat
SplitOnce(text, pat) ==
    LET occ == Occurrences(text, pat)
    IN  IF occ = {}
        THEN [found |-> FALSE, before |-> text, after |-> <<>>]
        ELSE LET i == Min(occ)
             IN  [found  |-> TRUE,
                  before |-> SubSeq(text, 1, i - 1),
                  after  |-> SubSeq(text, i + Len(pat), Len(text))]

\* str::replace(pat, rep): every non-overlapping occurrence, left to right
RECURSIVE Replace(_, _, _)
Replace(text, pat, rep) ==
    IF text = <<>> THEN <<>>
    ELSE IF MatchAt(text, pat, 1)
         THEN rep \o Replace(SubSeq(text, Len(pat) + 1, Len(text)), pat, rep)
         ELSE <<Head(text)>> \o Replace(Tail(text), pat, rep)

\* char::is_whitespace for the characters of the model
IsWhitespace(c) == c \in {SP, NL, "\t"}

\* str::trim_end
RECURSIVE trim_end(_)
trim_end(text) ==
    IF text # <<>> /\ IsWhitespace(text[Len(text)])
    THEN trim_end(SubSeq(text, 1, Len(text) - 1))
    ELSE text

(***************************************************************************)
(* serde_yaml values (YmlValue) and serde_yaml::to_string.                 *)
(* The tests pin the renderer's output: a "---" document marker, plain     *)
(* scalars, two-space indentation, "- " sequence items, and (as the        *)
(* slicing in Tracker::indent_string relies on) strings holding a line     *)
(* break rendered double-quoted with the break escaped as \n.              *)
(***************************************************************************)
YmlString(s) == [t |-> "String", s |-> s]

\* a mapping as the ordered list of its <<key, value>> pairs
YmlMapping(pairs) == [t |-> "Mapping", pairs |-> pairs]

YmlSequence(items) == [t |-> "Sequence", items |-> items]

\* characters that force quoting wherever they stand in a scalar
QuotedAnywhere == {":", "{", "}", "[", "]", ",", "#", "`", QUOTE, "'", BSLASH, "\t", NL, "\r"}

\* characters that force quoting when they start a scalar
QuotedFirst == {"&", "*", "?", "|", "-", "<", ">", "=", "!", "%", "@", "."}

\* the emitter's test for a scalar that cannot be written plain
need_quotes(s) ==
    \/ s = <<>>
    \/ s[1] = SP
    \/ s[Len(s)] = SP
    \/ s[1] \in QuotedFirst
    \/ \E i \in 1..Len(s) : s[i] \in QuotedAnywhere

\* the escape of one character inside a double-quoted scalar
escape_char(c) ==
    CASE c = QUOTE  -> <<BSLASH, QUOTE>>
      [] c = BSLASH -> <<BSLASH, BSLASH>>
      [] c = NL     -> <<BSLASH, "n">>
      [] c = "\t"   -> <<BSLASH, "t">>
      [] c = "\r"   -> <<BSLASH, "r">>
      [] OTHER      -> <<c>>

RECURSIVE escape_body(_)
escape_body(s) ==
    IF s = <<>> THEN <<>> ELSE escape_char(Head(s)) \o escape_body(Tail(s))

\* a double-quoted scalar
escape_str(s) == <<QUOTE>> \o escape_body(s) \o <<QUOTE>>

\* a string scalar: plain unless it needs quotes
emit_string(s) == IF need_quotes(s) THEN escape_str(s) ELSE s

\* the emitter's indentation: nothing at level <= 0, else two spaces per level
write_indent(level) == IF level <= 0 THEN <<>> ELSE Spaces(2 * level)

RECURSIVE emit_node(_, _)
RECURSIVE emit_val(_, _, _)
RECURSIVE emit_array(_, _, _)
RECURSIVE emit_hash(_, _, _)

\* the items of a sequence from the i-th on, at the (already raised) level
emit_array(items, i, level) ==
    IF i > Len(items) THEN <<>>
    ELSE (IF i > 1 THEN <<NL>> \o write_indent(level) ELSE <<>>)
         \o <<"-">> \o emit_val(TRUE, items[i], level)
         \o emit_array(items, i + 1, level)

\* the pairs of a mapping from the i-th on, at the (already raised) level
emit_hash(pairs, i, level) ==
    IF i > Len(pairs) THEN <<>>
    ELSE (IF i > 1 THEN <<NL>> \o write_indent(level) ELSE <<>>)
         \o emit_node(pairs[i][1], level) \o <<":">>
         \o emit_val(FALSE, pairs[i][2], level)
         \o emit_hash(pairs, i + 1, level)

\* a value after "-" (inline) or after "key:" (not inline)
emit_val(inline, val, level) ==
    IF val.t \in {"Sequence", "Mapping"}
    THEN (IF inline \/ (val.t = "Sequence" /\ val.items = <<>>)
                    \/ (val.t = "Mapping" /\ val.pairs = <<>>)
          THEN <<SP>>
          ELSE <<NL>> \o write_indent(level + 1))
         \o emit_node(val, level)
    ELSE <<SP>> \o emit_node(val, level)

emit_node(val, level) ==
    CASE val.t = "String"   -> emit_string(val.s)
      [] val.t = "Sequence" ->
            IF val.items = <<>> THEN <<"[", "]">>
            ELSE emit_array(val.items, 1, level + 1)
      [] val.t = "Mapping"  ->
            IF val.pairs = <<>> THEN <<"{", "}">>
            ELSE emit_hash(val.pairs, 1, level + 1)

\* the document marker the renderer starts every text with
DocMarker == <<"-", "-", "-">>

\* serde_yaml::to_string: marker, line break, the value, line break
to_string(val) == DocMarker \o <<NL>> \o emit_node(val, 0 - 1) \o <<NL>>

(***************************************************************************)
(* Levels, entries (Block) and tracker frames (LastBlockType).             *)
(***************************************************************************)
Levels == {"Trace", "Debug", "Info", "Warn", "Error"}

\* the derived order of enum Level: Trace < Debug < Info < Warn < Error
LevelOrd(l) ==
    CASE l = "Trace" -> 0
      [] l = "Debug" -> 1
      [] l = "Info"  -> 2
      [] l = "Warn"  -> 3
      [] l = "Error" -> 4

LastBlockType == {"None", "Reset", "Message", "BlockMessage", "Indent", "BlockIndent", "KeyValue"}

\* MessageType
MessageNone == [t |-> "None"]

MessageValue(v) == [t |-> "Value", v |-> v]

MessageKeyValue(k, v) == [t |-> "KeyValue", k |-> k, v |-> v]

\* Option<Vec<Block>>
ChildrenNone == [some |-> FALSE, list |-> <<>>]

ChildrenSome(list) == [some |-> TRUE, list |-> list]

\* Block::new(): every field unset
BlockNew == [message |-> MessageNone, log_level |-> "None", children |-> ChildrenNone]

\* Block::set_message for a string message
set_message(b, s) == [b EXCEPT !.message = MessageValue(YmlString(s))]

\* Block::set_message for any serializable message
set_message_value(b, v) == [b EXCEPT !.message = MessageValue(v)]

\* Block::set_children
set_children(b, list) == [b EXCEPT !.children = ChildrenSome(list)]

\* Block::set_log_level
set_log_level(b, level) == [b EXCEPT !.log_level = level]

\* Option::last of the stack, "Empty" for an empty stack
Top(d) == IF d = <<>> THEN "Empty" ELSE d[Len(d)]

\* *last = frame: the stack with its top frame replaced (an empty stack stays)
SetTop(d, frame) == IF d = <<>> THEN d ELSE [d EXCEPT ![Len(d)] = frame]

(***************************************************************************)
(* Tracker                                                                 *)
(***************************************************************************)
RECURSIVE build_value(_)
RECURSIVE build_children(_, _, _, _)

\* the fold over the children: the values built so far and the last depth
build_children(list, i, acc, last_depth) ==
    IF i > Len(list) THEN [panic |-> FALSE, seq |-> acc, depth |-> last_depth]
    ELSE LET kid == build_value(list[i])
         IN  IF kid.panic THEN [panic |-> TRUE, seq |-> acc, depth |-> last_depth]
             ELSE build_children(list, i + 1, Append(acc, kid.value), kid.depth)

\* Tracker::build_value: the YAML value of an entry, or a panic
build_value(b) ==
    LET Panic == [panic |-> TRUE, value |-> YmlString(<<>>), depth |-> <<>>]
    IN  CASE b.message.t = "None" -> Panic
          [] b.message.t = "Value" /\ b.children.some ->
                IF b.message.v.t = "Mapping" THEN Panic
                ELSE LET kids == build_children(b.children.list, 1, <<>>, <<>>)
                     IN  IF kids.panic THEN Panic
                         ELSE [panic |-> FALSE,
                               value |-> YmlMapping(<< <<b.message.v, YmlSequence(kids.seq)>> >>),
                               depth |-> kids.depth]
          [] b.message.t = "Value" /\ ~b.children.some ->
                [panic |-> FALSE, value |-> b.message.v, depth |-> <<"Message">>]
          [] b.message.t = "KeyValue" /\ b.children.some -> Panic
          [] b.message.t = "KeyValue" /\ ~b.children.some ->
                [panic |-> FALSE,
                 value |-> YmlMapping(<< <<b.message.k, b.message.v>> >>),
                 depth |-> <<"KeyValue">>]

\* Tracker::is_block: a string holding a line break
is_block(value) == value.t = "String" /\ Contains(value.s, NL)

\* the placeholder key of the padding
CutHere == <<"_", "_", "C", "u", "t", " ", "H", "e", "r", "e", "_", "_">>

\* the value wrapped in n mappings keyed by the empty string
RECURSIVE Pad(_, _)
Pad(padded, n) ==
    IF n <= 0 THEN padded
    ELSE Pad(YmlMapping(<< <<YmlString(<<>>), padded>> >>), n - 1)

\* a result of rendering: the stack after it and the text, or a panic
Rendered(d, out) == [panic |-> FALSE, depth |-> d, out |-> out]

Panicked(d) == [panic |-> TRUE, depth |-> d, out |-> <<>>]

\* the block branch of indent_string: the text after the placeholder is cut
\* after the indentation and the "- " marker (i_size bytes), the quotes around
\* the escaped string are dropped, and every escaped line break becomes a line
\* break followed by the block indentation
BlockScalar(d, message, i_size) ==
    IF i_size > Len(message) \/ Len(message) - i_size < 3 THEN Panicked(d)
    ELSE Rendered(d,
            SubSeq(message, 1, i_size) \o <<"|", "-", NL>> \o Spaces(i_size)
            \o Replace(SubSeq(message, i_size + 2, Len(message) - 2), <<BSLASH, "n">>,
                       <<NL>> \o Spaces(i_size))
            \o <<NL>>)

\* the text after the placeholder, as it is (plain) or reshaped (block)
CutMessage(d, blk, cut) ==
    IF ~cut.found THEN Panicked(d)
    ELSE IF blk THEN BlockScalar(d, cut.after, Len(d) * 2)
    ELSE Rendered(d, cut.after)

\* a padding loop that runs once too often
PaddedOnceMore(d, value) ==
    Pad(YmlMapping(<< <<YmlString(CutHere), YmlSequence(<<value>>)>> >>), Len(d) - 1)

\* the padded value: the placeholder key over a one-item sequence, wrapped in
\* len - 2 mappings keyed by the empty string
Padded(d, value) ==
    Pad(YmlMapping(<< <<YmlString(CutHere), YmlSequence(<<value>>)>> >>), Len(d) - 2)

\* stack length >= 2: pad, render, cut at the placeholder
IndentNested(d, value, blk) ==
    CutMessage(d, blk, SplitOnce(to_string(Padded(d, value)), CutHere \o <<":", NL>>))

\* a root case that falls through to the padded rendering
IndentRootAsNested(d, value, blk) == IndentNested(d, value, blk)

\* stack length 1: a root level message (new document)
IndentRoot(d, value, blk) ==
    IF blk THEN Rendered(d, <<"|", "+", SP>> \o value.s)
    ELSE Rendered(d, to_string(value))

\* the match on the stack length in indent_string
IndentAt(d, value, blk) ==
    CASE Len(d) = 0 -> Panicked(d)
      [] Len(d) = 1 -> IndentRoot(d, value, blk)
      [] OTHER      -> IndentNested(d, value, blk)

\* an indent_string that sets the top frame by the entry: BlockMessage for a
\* block, Message for any other
IndentStringByEntry(d, value) ==
    IndentAt(SetTop(d, IF is_block(value) THEN "BlockMessage" ELSE "Message"), value,
             is_block(value))

\* an indent_string that leaves the top frame as it is
IndentStringNoUpgrade(d, value) == IndentAt(d, value, is_block(value))

\* Tracker::indent_string: a block entry turns the top frame into BlockMessage,
\* then the entry is rendered at the indentation of the stack
indent_string(d, value) ==
    IndentAt(IF is_block(value) THEN SetTop(d, "BlockMessage") ELSE d, value, is_block(value))

\* the phony key that opens a sequence after a block
PhonyKey == <<"-", SP, QUOTE, QUOTE, SP, ":", NL>>

\* format!: the text of a rendering with a prefix in front
Prefixed(prefix, r) == [r EXCEPT !.out = prefix \o r.out]

\* serialize on an empty stack: the first message of the document
SerializeFirst(d, value) == Rendered(Append(d, "Message"), <<NL>> \o to_string(value))

\* a serialize that leaves a None or Reset frame in place
SerializeResetKept(d, value) == Rendered(d, <<NL>> \o to_string(value))

\* serialize on a None or Reset frame
SerializeReset(d, value) == Rendered(SetTop(d, "Message"), <<NL>> \o to_string(value))

\* serialize on a Message or BlockMessage frame: the next item of the sequence
SerializeItem(d, value) == Prefixed(<<NL>>, indent_string(d, value))

\* an Indent branch that leaves the pending frame in place
SerializeIndentKept(d, value) == Prefixed(<<":", NL>>, indent_string(d, value))

\* serialize on an Indent frame: the previous line becomes a key
SerializeIndent(d, value) ==
    Prefixed(<<":", NL>>, indent_string(SetTop(d, "Message"), value))

\* a phony key written at the indentation of the new item
SerializeBlockIndentDeep(d, value) ==
    Prefixed(<<NL>> \o Spaces(2 * (Len(d) - 1)) \o PhonyKey,
             indent_string(SetTop(d, "BlockMessage"), value))

\* serialize on a BlockIndent frame: a phony key opens the sequence
SerializeBlockIndent(d, value) ==
    Prefixed(<<NL>> \o Spaces(2 * (Len(d) - 2)) \o PhonyKey,
             indent_string(SetTop(d, "BlockMessage"), value))

\* the match on the top frame in serialize
SerializeMatch(d, value) ==
    CASE Top(d) = "Empty"                       -> SerializeFirst(d, value)
      [] Top(d) \in {"None", "Reset"}           -> SerializeReset(d, value)
      [] Top(d) \in {"Message", "BlockMessage"} -> SerializeItem(d, value)
      [] Top(d) = "Indent"                      -> SerializeIndent(d, value)
      [] Top(d) = "BlockIndent"                 -> SerializeBlockIndent(d, value)
      [] OTHER                                  -> Panicked(d)

\* the trailing trim_end of serialize
TrimOut(r) == [r EXCEPT !.out = trim_end(r.out)]

\* a serialize that rewrites the top frame before it fails
SerializeBuiltLate(d, built) ==
    IF built.panic THEN Panicked(SetTop(d, "Message"))
    ELSE TrimOut(SerializeMatch(d, built.value))

\* the stack with the frames build_value returned in place of its top frame
WithNewDepth(r, new_depth) ==
    IF r.panic \/ r.depth = <<>> THEN r
    ELSE [r EXCEPT !.depth = SubSeq(r.depth, 1, Len(r.depth) - 1) \o new_depth]

\* a serialize that takes the frames build_value returned
SerializeBuiltDepth(d, built) ==
    IF built.panic THEN Panicked(d)
    ELSE WithNewDepth(TrimOut(SerializeMatch(d, built.value)), built.depth)

\* serialize once build_value has returned
SerializeBuilt(d, built) ==
    IF built.panic THEN Panicked(d) ELSE TrimOut(SerializeMatch(d, built.value))

\* Tracker::serialize: the fragment to write and the stack after it
serialize(d, b) == SerializeBuilt(d, build_value(b))

\* an indent that overwrites the top frame instead of pushing
IndentReplace(d) ==
    CASE Top(d) = "Message"      -> SetTop(d, "Indent")
      [] Top(d) = "BlockMessage" -> SetTop(d, "BlockIndent")
      [] OTHER                   -> d

\* an indent that is honoured again on a pending frame
IndentAgain(d) ==
    CASE Top(d) \in {"Message", "Indent"}           -> Append(d, "Indent")
      [] Top(d) \in {"BlockMessage", "BlockIndent"} -> Append(d, "BlockIndent")
      [] OTHER                                      -> d

\* an indent that is also honoured on an empty stack and on a Reset frame
IndentAnywhere(d) ==
    CASE Top(d) \in {"Message", "Empty", "Reset"} -> Append(d, "Indent")
      [] Top(d) = "BlockMessage"                  -> Append(d, "BlockIndent")
      [] OTHER                                    -> d

\* Tracker::indent: one pending frame after an item, nothing otherwise
indent(d) ==
    CASE Top(d) = "Message"      -> Append(d, "Indent")
      [] Top(d) = "BlockMessage" -> Append(d, "BlockIndent")
      [] OTHER                   -> d

\* a dedent that pops two frames
DedentTwo(d) == IF Len(d) <= 2 THEN <<>> ELSE SubSeq(d, 1, Len(d) - 2)

\* Tracker::dedent: Vec::pop
dedent(d) == IF d = <<>> THEN d ELSE SubSeq(d, 1, Len(d) - 1)

\* a reset that pushes Reset without clearing
ResetNoClear(d) == Append(d, "Reset")

\* Tracker::reset: clear, then push Reset
reset(d) == <<"Reset">>

(***************************************************************************)
(* YmLog                                                                   *)
(***************************************************************************)
\* impl Default for YmLog: empty tracker, threshold Warn, no sink
YmLogDefault == [depth |-> <<>>, log_level |-> "Warn", logger |-> "None"]

\* the level an entry is compared with: its own, or Info when it was never set
EntryLevel(b) == IF b.log_level = "None" THEN "Info" ELSE b.log_level

\* Write::write_all on the in-memory sink: the bytes are appended
write_all(snk, bytes) == snk \o bytes

\* the outcome of a write: called says serialize was invoked, panic that it
\* panicked
Skipped(d, snk) == [called |-> FALSE, panic |-> FALSE, depth |-> d, sink |-> snk, out |-> <<>>]

\* the write once serialize has returned
Written(r, snk) ==
    [called |-> TRUE, panic |-> r.panic, depth |-> r.depth,
     sink |-> IF r.panic THEN snk ELSE write_all(snk, r.out), out |-> r.out]

\* a filter that also drops the entries at the threshold itself
WriteAboveOnly(threshold, lg, d, snk, b) ==
    IF LevelOrd(threshold) >= LevelOrd(EntryLevel(b)) THEN Skipped(d, snk)
    ELSE IF lg # "Some" THEN Skipped(d, snk)
    ELSE Written(serialize(d, b), snk)

\* YmLog::write: the level filter, then serialize and write_all
write(threshold, lg, d, snk, b) ==
    IF LevelOrd(threshold) > LevelOrd(EntryLevel(b)) THEN Skipped(d, snk)
    ELSE IF lg # "Some" THEN Skipped(d, snk)
    ELSE Written(serialize(d, b), snk)

\* a split that leaves the ':' in front of the value
SplitAtKeepColon(b, cut) ==
    IF cut.found
    THEN [panic |-> FALSE,
          block |-> [b EXCEPT !.message = MessageKeyValue(YmlString(cut.before),
                                                          YmlString(<<":">> \o cut.after))]]
    ELSE [panic |-> TRUE, block |-> b]

\* the message replaced by the pair cut at the first ':', or a panic
SplitAt(b, cut) ==
    IF cut.found
    THEN [panic |-> FALSE,
          block |-> [b EXCEPT !.message = MessageKeyValue(YmlString(cut.before),
                                                          YmlString(cut.after))]]
    ELSE [panic |-> TRUE, block |-> b]

\* YmLog::split_block: only a plain string message holding ':' is split
split_block(b) ==
    IF b.message.t = "Value" /\ b.message.v.t = "String"
    THEN SplitAt(b, SplitOnce(b.message.v.s, <<":">>))
    ELSE [panic |-> TRUE, block |-> b]

\* the string of an entry that is a plain string message without children,
\* empty otherwise
MessageText(b) ==
    IF b.message.t = "Value" /\ b.message.v.t = "String" /\ ~b.children.some
    THEN b.message.v.s ELSE <<>>

\* what the last step did: the op-code, whether serialize ran (called) and
\* returned (emitted), the stack, the entry, the has_printed flag, the sink
\* length and the level letters it found, the message it rendered and the
\* fragment it returned; parent is the stack length left by the most recent
\* fragment before this step; prev keeps the same of the step before it
Last(op, w) ==
    [op |-> op, called |-> w.called, emitted |-> w.called /\ ~w.panic, before |-> depth,
     parent |-> IF last.emitted THEN Len(depth) ELSE last.parent,
     entry |-> block, printed |-> has_printed, sunk |-> Len(sink), letters |-> letters,
     msg |-> IF w.called THEN MessageText(block) ELSE <<>>, out |-> w.out,
     prev |-> [op |-> last.op, emitted |-> last.emitted, msg |-> last.msg, out |-> last.out]]

NoWrite == Skipped(depth, sink)

\* the effect of a write on the logger, and the step recorded
ApplyWrite(op, w, pc_after) ==
    /\ depth' = w.depth
    /\ sink' = w.sink
    /\ pc' = IF w.panic THEN "panicked" ELSE pc_after
    /\ last' = Last(op, w)

(***************************************************************************)
(* formatter.rs: Chomp, Indent, Style and YamlFormatter.                   *)
(***************************************************************************)
\* enum Chomp
Chomps == {"Clip", "Strip", "Keep"}

\* Display for Chomp
ChompText(chomp) ==
    CASE chomp = "Clip" -> <<>>
      [] chomp = "Strip" -> <<"-">>
      [] chomp = "Keep" -> <<"+">>

\* Indent::Space(count)
IndentSpace(count) == [t |-> "Space", count |-> count]

\* Indent::Tab
IndentTab == [t |-> "Tab", count |-> 0]

\* Default for Indent
IndentDefault == IndentSpace(2)

\* str::repeat
RECURSIVE Repeat(_, _)
Repeat(text, n) == IF n <= 0 THEN <<>> ELSE text \o Repeat(text, n - 1)

\* Display for Indent
IndentText(idt) == IF idt.t = "Space" THEN Spaces(idt.count) ELSE <<"\t">>

\* Indent::make, count being count.unwrap_or(0)
IndentMake(idt, count) == Repeat(IndentText(idt), count)

\* enum Style; chomp is "None" for the styles that carry none
Style(t, chomp) == [t |-> t, chomp |-> chomp]

\* Default for Style
StyleDefault == Style("Guess", "None")

\* the builds of the crate: usize arithmetic that overflows panics in a debug
\* build and wraps in a release build
Builds == {"debug", "release"}

\* usize values are kept modulo UsizeRange; the outcomes are those of every
\* width whose range exceeds the lengths and the wrap widths explored
UsizeRange == 2 ^ 30

UsizeOverflows(x) == x < 0 \/ x >= UsizeRange

Usize(x) == x % UsizeRange

\* fold_string before its loop: the header, an empty word, the indentation
\* counted in the line
FoldStart(ind, chomp) ==
    [result |-> <<SP, ">">> \o ChompText(chomp) \o <<NL>>, word |-> <<>>,
     word_is_ws |-> FALSE, line_len |-> Len(ind), panic |-> FALSE]

\* the buffers after a line break: line_len = indent.len() - 1
FoldBroken(st, ind, build, result, word, ws) ==
    IF UsizeOverflows(Len(ind) - 1) /\ build = "debug" THEN [st EXCEPT !.panic = TRUE]
    ELSE [st EXCEPT !.result = result, !.word = word, !.word_is_ws = ws,
                    !.line_len = Usize(Len(ind) - 1)]

\* the ' ' arm
FoldSpace(st, ind, wrap_at, build) ==
    IF UsizeOverflows(Len(st.word) + st.line_len) /\ build = "debug"
    THEN [st EXCEPT !.panic = TRUE]
    ELSE IF wrap_at <= Usize(Len(st.word) + st.line_len)
         THEN IF st.word_is_ws
              THEN FoldBroken(st, ind, build, st.result \o <<NL>>, ind \o st.word,
                              st.word_is_ws)
              ELSE FoldBroken(st, ind, build, st.result \o st.word \o <<NL>> \o ind, ind,
                              FALSE)
         ELSE [st EXCEPT !.result = st.result \o st.word,
                         !.line_len = Usize(st.line_len + Len(st.word)),
                         !.word = <<>>]

\* the '\n' arm
FoldBreak(st, ind, build) ==
    FoldBroken(st, ind, build, st.result \o <<NL>> \o ind, st.word, st.word_is_ws)

\* one character of the loop
FoldChar(st, c, ind, wrap_at, build) ==
    IF st.panic THEN st
    ELSE IF c = SP THEN FoldSpace(st, ind, wrap_at, build)
    ELSE IF c = NL THEN FoldBreak(st, ind, build)
    ELSE [st EXCEPT !.word = Append(st.word, c)]

\* the loop over value.chars() from the i-th character on
RECURSIVE FoldChars(_, _, _, _, _, _)
FoldChars(st, value, i, ind, wrap_at, build) ==
    IF i > Len(value) THEN st
    ELSE FoldChars(FoldChar(st, value[i], ind, wrap_at, build), value, i + 1, ind, wrap_at,
                   build)

\* Ok(result), or the panic
FoldResult(st) == [panic |-> st.panic, out |-> IF st.panic THEN <<>> ELSE st.result]

\* Style::fold_string
fold_string(value, nest, chomp, idt, wrap_at, build) ==
    FoldResult(FoldChars(FoldStart(Repeat(IndentText(idt), nest + 1), chomp), value, 1,
                         Repeat(IndentText(idt), nest + 1), wrap_at, build))

\* Style::literal_string
literal_string(value, nest, chomp, idt, wrap_at) ==
    [panic |-> FALSE, out |-> <<SP, "|">> \o ChompText(chomp) \o <<NL>>]

\* Style::guess_style
guess_style(value) ==
    IF Contains(value, NL) THEN Style("Literal", "Clip") ELSE Style("Double", "None")

\* Option<T>: None and Some(v)
OptionNone == [some |-> FALSE, v |-> 0]

OptionSome(v) == [some |-> TRUE, v |-> v]

\* Option::unwrap_or
unwrap_or(opt, default) == IF opt.some THEN opt.v ELSE default

\* the wrap width of a formatter whose wrap_at is None
WrapDefault == 120

\* Default for YamlFormatter; last_write is the pair (indent, item)
YamlFormatterDefault ==
    [last_write |-> [indent |-> 0, item |-> "None"], indent |-> IndentDefault,
     multiline_style |-> StyleDefault, finalize_document |-> FALSE, wrap_at |-> OptionNone]

\* the match of stringify_string on the style chosen
StringifyStyled(fmt, value, nest, style, build) ==
    IF style.t = "Folded"
    THEN [fmt |-> [fmt EXCEPT !.last_write.item = "Block(Scalar)"],
          res |-> fold_string(value, nest, style.chomp, fmt.indent,
                              unwrap_or(fmt.wrap_at, WrapDefault), build)]
    ELSE IF style.t = "Literal"
    THEN [fmt |-> [fmt EXCEPT !.last_write.item = "Block(Scalar)"],
          res |-> literal_string(value, nest, style.chomp, fmt.indent,
                                 unwrap_or(fmt.wrap_at, WrapDefault))]
    ELSE [fmt |-> fmt, res |-> [panic |-> TRUE, out |-> <<>>]]

\* YamlFormatter::stringify_string
stringify_string(fmt, value, nest, build) ==
    StringifyStyled(fmt, value, nest,
                    IF fmt.multiline_style.t = "Guess" THEN guess_style(value)
                    ELSE fmt.multiline_style,
                    build)

\* the result of stringify: the indentation, then the scalar, then the
\* document end when finalize_document is set
Stringified(r, indent_str, nest) ==
    [fmt |-> r.fmt,
     res |-> [panic |-> r.res.panic,
              out |-> IF r.res.panic THEN <<>>
                      ELSE indent_str \o r.res.out
                           \o (IF nest = 0 /\ r.fmt.finalize_document
                               THEN <<".", ".", ".", NL>> ELSE <<>>)]]

\* YamlFormatter::stringify of a YmlValue::String; idt is the Option<u8>
stringify(fmt, value, idt, build) ==
    Stringified(stringify_string([fmt EXCEPT !.last_write = [indent |-> unwrap_or(idt, 0),
                                                            item |-> "None"]],
                                 value, unwrap_or(idt, 0), build),
                IndentMake(fmt.indent, unwrap_or(idt, 0)), unwrap_or(idt, 0))

\* no call of the formatter that returns a value yet, or none since the
\* formatter was last configured
NoCall ==
    [fn |-> "none", depth |-> 0, chomp |-> "None", indent |-> IndentDefault, wrap_at |-> 0,
     panic |-> FALSE, out |-> <<>>, style |-> StyleDefault]

\* a program that formats nothing
NoFormatter == [fmt |-> YamlFormatterDefault, value |-> <<>>, build |-> "debug", call |-> NoCall]

\* the string messages the callers log
Msgs ==
    { <<"a">>,
      <<"a", NL, "b">>,
      <<"a", NL>>,
      <<QUOTE, NL, "a">> }

\* the entries the callers log: a string message, with and without ':' and
\* line break; no message; children under a string message, under a mapping
\* message and under a message that 'k' can split; a child without message
Blocks ==
    { set_message(BlockNew, <<"a">>),
      set_message(BlockNew, <<"a", NL, "b">>),
      set_message(BlockNew, <<"k", ":", "v", ":">>),
      BlockNew,
           set_children(set_message(BlockNew, <<"a">>), <<set_message(BlockNew, <<"b">>)>>),
           set_children(set_message(BlockNew, <<"a">>), <<BlockNew>>),
           set_children(set_message(BlockNew, <<"k", ":", "v">>),
                        <<set_message(BlockNew, <<"b">>)>>),
           set_children(set_message_value(BlockNew,
                                          YmlMapping(<< <<YmlString(<<"k">>), YmlString(<<"v">>)>> >>)),
                        <<set_message(BlockNew, <<"b">>)>>) }

\* the level a letter sets
LevelOf(letter) ==
    CASE letter = "T" -> "Trace"
      [] letter = "D" -> "Debug"
      [] letter = "I" -> "Info"
      [] letter = "W" -> "Warn"
      [] letter = "E" -> "Error"

LevelLetters == {"T", "D", "I", "W", "E"}

\* the level letters of a call so far: whether there were none, one or several,
\* and the last one
NoLetters == [n |-> "none", last |-> "None"]

OneMore(n) == IF n = "none" THEN "one" ELSE "several"

\* the threads that log through the shared logger
Callers == {"c1", "c2"}

\* a thread outside ymlog!
FrameIdle == [pc |-> "idle", block |-> BlockNew, has_printed |-> FALSE, ops |-> <<>>]

\* static LOG: Mutex<YmLog>: nobody holds the lock; frames are the threads'
\* positions in ymlog! with the op-codes each has applied, order the threads
\* in the order they acquired the lock
MutexFree == [holder |-> "none", frames |-> [c \in Callers |-> FrameIdle], order |-> <<>>]

\* YmLog::new(): the defaults; no sink is attached yet, so none holds bytes
Init ==
    /\ depth = YmLogDefault.depth
    /\ log_level = YmLogDefault.log_level
    /\ logger = YmLogDefault.logger
    /\ sink = <<>>
    /\ pc = "idle"
    /\ block = BlockNew
    /\ has_printed = FALSE
    /\ letters = NoLetters
    /\ mutex = MutexFree
    /\ formatter = NoFormatter
    /\ last = [op |-> "new", called |-> FALSE, emitted |-> FALSE, before |-> <<>>,
               parent |-> 0, entry |-> BlockNew, printed |-> FALSE, sunk |-> 0,
               letters |-> NoLetters,
               msg |-> <<>>, out |-> <<>>,
               prev |-> [op |-> "new", emitted |-> FALSE, msg |-> <<>>, out |-> <<>>]]

\* YmLog::set_output: a new, empty sink replaces the old one
SetOutput ==
    /\ pc = "idle"
    /\ logger' = "Some"
    /\ sink' = <<>>
    /\ last' = Last("set_output", NoWrite)
    /\ UNCHANGED <<depth, log_level, pc, block, has_printed, letters, mutex, formatter>>

\* YmLog::set_level: the threshold below which entries are not written
SetLevel(level) ==
    /\ pc = "idle"
    /\ log_level' = level
    /\ last' = Last("set_level", NoWrite)
    /\ UNCHANGED <<depth, logger, sink, pc, block, has_printed, letters, mutex, formatter>>

\* a caller's entry, then YmLog::log up to its loop over the op-codes
LogBegin(b) ==
    /\ pc = "idle"
    /\ block' = b
    /\ has_printed' = FALSE
    /\ letters' = NoLetters
    /\ pc' = IF logger = "Some" THEN "running" ELSE "panicked"
    /\ last' = Last("begin", NoWrite)
    /\ UNCHANGED <<depth, log_level, logger, sink, mutex, formatter>>

\* '+'
OpIndent ==
    /\ pc = "running"
    /\ Top(depth) \in {"Message", "BlockMessage"} => Len(depth) < MaxDepth
    /\ depth' = indent(depth)
    /\ last' = Last("+", NoWrite)
    /\ UNCHANGED <<log_level, logger, sink, pc, block, has_printed, letters, mutex, formatter>>

\* '-'
OpDedent ==
    /\ pc = "running"
    /\ depth' = dedent(depth)
    /\ last' = Last("-", NoWrite)
    /\ UNCHANGED <<log_level, logger, sink, pc, block, has_printed, letters, mutex, formatter>>

\* 'r'
OpReset ==
    /\ pc = "running"
    /\ depth' = reset(depth)
    /\ last' = Last("r", NoWrite)
    /\ UNCHANGED <<log_level, logger, sink, pc, block, has_printed, letters, mutex, formatter>>

\* 'k'
OpSplit ==
    /\ pc = "running"
    /\ block' = split_block(block).block
    /\ pc' = IF split_block(block).panic THEN "panicked" ELSE "running"
    /\ last' = Last("k", NoWrite)
    /\ UNCHANGED <<depth, log_level, logger, sink, has_printed, letters, mutex, formatter>>

\* '_', explored up to max_sink bytes in the sink
OpWriteTo(max_sink) ==
    /\ pc = "running"
    /\ Len(sink) <= max_sink
    /\ ApplyWrite("_", write(log_level, logger, depth, sink, block), "running")
    /\ has_printed' = TRUE
    /\ UNCHANGED <<log_level, logger, block, letters, mutex, formatter>>

\* a level letter that does not replace a level already set
OpLevelFirst(letter) ==
    /\ pc = "running"
    /\ block' = IF block.log_level = "None" THEN set_log_level(block, LevelOf(letter))
                ELSE block
    /\ letters' = [n |-> OneMore(letters.n), last |-> letter]
    /\ last' = Last(letter, NoWrite)
    /\ UNCHANGED <<depth, log_level, logger, sink, pc, has_printed, mutex, formatter>>

\* 'T', 'D', 'I', 'W', 'E'
OpLevel(letter) ==
    /\ pc = "running"
    /\ block' = set_log_level(block, LevelOf(letter))
    /\ letters' = [n |-> OneMore(letters.n), last |-> letter]
    /\ last' = Last(letter, NoWrite)
    /\ UNCHANGED <<depth, log_level, logger, sink, pc, has_printed, mutex, formatter>>

\* an unknown character that is skipped
OpInvalidSkipped ==
    /\ pc = "running"
    /\ last' = Last("?", NoWrite)
    /\ UNCHANGED <<depth, log_level, logger, sink, pc, block, has_printed, letters, mutex, formatter>>

\* any other character: the panic of the last match arm
OpInvalid ==
    /\ pc = "running"
    /\ pc' = "panicked"
    /\ last' = Last("?", NoWrite)
    /\ UNCHANGED <<depth, log_level, logger, sink, block, has_printed, letters, mutex, formatter>>

OpWrite == OpWriteTo(MaxSink)

\* an end of call that writes the entry whether or not a '_' wrote it
LogEndAlways(max_sink) ==
    /\ pc = "running"
    /\ Len(sink) <= max_sink
    /\ ApplyWrite("end", write(log_level, logger, depth, sink, block), "idle")
    /\ block' = BlockNew
    /\ has_printed' = FALSE
    /\ letters' = NoLetters
    /\ UNCHANGED <<log_level, logger, mutex, formatter>>

\* the end of the op-codes: the entry is written if no '_' wrote it, and the
\* block is dropped
LogEndTo(max_sink) ==
    /\ pc = "running"
    /\ has_printed \/ Len(sink) <= max_sink
    /\ ApplyWrite("end",
                  IF has_printed THEN NoWrite
                  ELSE write(log_level, logger, depth, sink, block),
                  "idle")
    /\ block' = BlockNew
    /\ has_printed' = FALSE
    /\ letters' = NoLetters
    /\ UNCHANGED <<log_level, logger, mutex, formatter>>

LogEnd == LogEndTo(MaxSink)

\* string messages logged with the op-codes '+', '-', 'r' and '_'
Next ==
    \/ SetOutput
    \/ \E level \in Levels : SetLevel(level)
    \/ \E msg \in Msgs : LogBegin(set_message(BlockNew, msg))
    \/ OpIndent
    \/ OpDedent
    \/ OpReset
    \/ OpWrite
    \/ LogEnd

Spec == Init /\ [][Next]_vars

\* the logger as one call sees it: the tracker stack, the sink and has_printed
LogState(d, snk, printed) == [depth |-> d, sink |-> snk, has_printed |-> printed]

\* the logger after a write
AfterWrite(w, printed) == LogState(w.depth, w.sink, printed)

\* one op-code of YmLog::log applied to the logger, "end" for the end of the
\* op-codes
ApplyOp(st, b, op) ==
    CASE op = "+" -> [st EXCEPT !.depth = indent(st.depth)]
      [] op = "-" -> [st EXCEPT !.depth = dedent(st.depth)]
      [] op = "r" -> [st EXCEPT !.depth = reset(st.depth)]
      [] op = "_" -> AfterWrite(write(log_level, logger, st.depth, st.sink, b), TRUE)
      [] op = "end" -> IF st.has_printed THEN st
                       ELSE AfterWrite(write(log_level, logger, st.depth, st.sink, b),
                                       st.has_printed)

\* the op-codes the threads use
SharedOps == {"+", "-", "r", "_"}

\* the logger of the threads: a sink is attached and the threshold is Trace
SharedInit ==
    /\ depth = YmLogDefault.depth
    /\ log_level = "Trace"
    /\ logger = "Some"
    /\ sink = <<>>
    /\ pc = "idle"
    /\ block = BlockNew
    /\ has_printed = FALSE
    /\ letters = NoLetters
    /\ mutex = MutexFree
    /\ formatter = NoFormatter
    /\ last = [op |-> "new", called |-> FALSE, emitted |-> FALSE, before |-> <<>>,
               parent |-> 0, entry |-> BlockNew, printed |-> FALSE, sunk |-> 0,
               letters |-> NoLetters, msg |-> <<>>, out |-> <<>>,
               prev |-> [op |-> "new", emitted |-> FALSE, msg |-> <<>>, out |-> <<>>]]

\* ymlog!: the thread builds its entry, before it asks for the lock
Build(c, msg) ==
    /\ mutex.frames[c].pc = "idle"
    /\ mutex' = [mutex EXCEPT !.frames[c] = [pc |-> "built", block |-> set_message(BlockNew, msg),
                                             has_printed |-> FALSE, ops |-> <<>>]]
    /\ UNCHANGED <<depth, log_level, logger, sink, pc, block, has_printed, last, letters, formatter>>

\* a lock that is handed out while another thread holds it
LockNoWait(c) ==
    /\ mutex.frames[c].pc = "built"
    /\ mutex' = [mutex EXCEPT !.holder = c, !.frames[c].pc = "running",
                              !.order = Append(mutex.order, c)]
    /\ UNCHANGED <<depth, log_level, logger, sink, pc, block, has_printed, last, letters, formatter>>

\* LOG.lock().unwrap(): the thread waits until nobody holds the lock, takes it
\* and enters log()
Lock(c) ==
    /\ mutex.frames[c].pc = "built"
    /\ mutex.holder = "none"
    /\ mutex' = [mutex EXCEPT !.holder = c, !.frames[c].pc = "running",
                              !.order = Append(mutex.order, c)]
    /\ UNCHANGED <<depth, log_level, logger, sink, pc, block, has_printed, last, letters, formatter>>

\* the thread's frame and the logger after one op-code of its call
CallerStep(c, op, st) ==
    /\ depth' = st.depth
    /\ sink' = st.sink
    /\ mutex' = [mutex EXCEPT !.frames[c].has_printed = st.has_printed,
                              !.frames[c].ops = Append(mutex.frames[c].ops, op)]

\* the thread in log() applies the next op-code of its action string
CallerOp(c, op) ==
    /\ mutex.frames[c].pc = "running"
    /\ Len(mutex.frames[c].ops) < MaxOps
    /\ CallerStep(c, op, ApplyOp(LogState(depth, sink, mutex.frames[c].has_printed),
                                 mutex.frames[c].block, op))
    /\ UNCHANGED <<log_level, logger, pc, block, has_printed, last, letters, formatter>>

\* the thread's frame and the logger when log() returns and the guard is
\* dropped
CallerReturn(c, st) ==
    /\ depth' = st.depth
    /\ sink' = st.sink
    /\ mutex' = [mutex EXCEPT !.holder = "none", !.frames[c].pc = "done",
                              !.frames[c].has_printed = st.has_printed]

\* the end of the thread's op-codes: the final write, then the lock is released
CallerEnd(c) ==
    /\ mutex.frames[c].pc = "running"
    /\ CallerReturn(c, ApplyOp(LogState(depth, sink, mutex.frames[c].has_printed),
                               mutex.frames[c].block, "end"))
    /\ UNCHANGED <<log_level, logger, pc, block, has_printed, last, letters, formatter>>

\* the messages of the threads
SharedMsgs == { <<"a">>, <<"a", NL, "b">> }

\* two threads, each logging one entry through the shared logger
SharedNext ==
    \/ \E c \in Callers, msg \in SharedMsgs : Build(c, msg)
    \/ \E c \in Callers : Lock(c)
    \/ \E c \in Callers, op \in SharedOps : CallerOp(c, op)
    \/ \E c \in Callers : CallerEnd(c)

SpecShared == SharedInit /\ [][SharedNext]_vars

\* the thresholds set where every shape of entry is explored; Warn is the default
OpsThresholds == {"Trace", "Info"}

\* every shape of entry logged at the top level with the op-codes that do not
\* indent
OpsNext ==
    \/ SetOutput
    \/ \E level \in OpsThresholds : SetLevel(level)
    \/ \E b \in Blocks : LogBegin(b)
    \/ OpDedent
    \/ OpReset
    \/ OpSplit
    \/ OpWriteTo(MaxOpsSink)
    \/ \E letter \in LevelLetters : OpLevel(letter)
    \/ OpInvalid
    \/ LogEndTo(MaxOpsSink)

SpecOps == Init /\ [][OpsNext]_vars

(***************************************************************************)
(* Vocabulary of the properties.                                           *)
(***************************************************************************)
\* text ends with suf
Suffix(text, suf) ==
    Len(suf) <= Len(text) /\ SubSeq(text, Len(text) - Len(suf) + 1, Len(text)) = suf

\* text starts with pre
Prefix(text, pre) == Len(pre) <= Len(text) /\ SubSeq(text, 1, Len(pre)) = pre

SingleLine(m) == ~Contains(m, NL)

\* the entry the macro builds for a string message
Entry(m) == set_message(BlockNew, m)

\* the expected sequence item at a stack: the "- " marker after two spaces per
\* level above the first, then the scalar
Item(d, m) == Spaces(2 * (Len(d) - 1)) \o <<"-", SP>> \o emit_string(m)

\* the position of the last line break of a text, 0 if it has none
LastBreak(text) ==
    IF Contains(text, NL) THEN CHOOSE i \in 1..Len(text) :
                                  text[i] = NL /\ \A j \in (i + 1)..Len(text) : text[j] # NL
    ELSE 0

\* the number of spaces in front of the first other character of the last line
MarkerColumn(text) ==
    Cardinality({i \in (LastBreak(text) + 1)..Len(text) :
                    \A j \in (LastBreak(text) + 1)..i : text[j] = SP})

\* the step just taken rendered a single-line entry on a stack of length >= n
EmittedSingle(n) ==
    last.emitted /\ last.msg # <<>> /\ SingleLine(last.msg) /\ Len(last.before) >= n

(***************************************************************************)
(* C1: at stack length d >= 2 a single-line entry is appended as a sequence *)
(* item whose "- " marker stands after exactly 2*(d-1) spaces; when the top *)
(* frame was Indent the fragment is ':' and a line break followed by that   *)
(* item, and the top frame becomes Message.                                 *)
(***************************************************************************)
C1_SingleLineItem ==
    EmittedSingle(2) =>
        /\ Suffix(last.out, <<NL>> \o Item(last.before, last.msg))
        /\ Suffix(sink, last.out)
        /\ Top(last.before) = "Indent" =>
              /\ last.out = <<":", NL>> \o Item(last.before, last.msg)
              /\ depth = SetTop(last.before, "Message")

C1_Witness == EmittedSingle(3) /\ Top(last.before) = "Indent"

(***************************************************************************)
(* C2: a single-line emit that directly follows a single-line emit at stack *)
(* length d >= 2 appends a line break and the item at the indentation of    *)
(* the first, never ':', and leaves the stack as it was; and in every state *)
(* reached by such an emit, serialize of a further single-line entry does   *)
(* the same.                                                                *)
(***************************************************************************)
C2_SiblingItem ==
    /\ (EmittedSingle(2) /\ last.prev.emitted /\ SingleLine(last.prev.msg)) =>
          /\ last.out = <<NL>> \o Spaces(MarkerColumn(last.prev.out)) \o <<"-", SP>>
                        \o emit_string(last.msg)
          /\ depth = last.before
    /\ EmittedSingle(2) =>
          \A m \in {x \in Msgs : SingleLine(x)} :
              serialize(depth, Entry(m)) =
                  Rendered(depth, <<NL>> \o Spaces(MarkerColumn(last.out)) \o <<"-", SP>>
                                  \o emit_string(m))

C2_Witness ==
    /\ EmittedSingle(3)
    /\ last.prev.emitted
    /\ SingleLine(last.prev.msg)
    /\ Top(last.before) = "Message"

(***************************************************************************)
(* C3: on a fresh logger (empty stack, empty sink) the first single-line    *)
(* entry leaves the sink holding exactly the document marker, a line break  *)
(* and the message, with nothing in front.                                  *)
(***************************************************************************)
C3_FirstEntryExact ==
    (EmittedSingle(0) /\ last.before = <<>> /\ sink = last.out) =>
        sink = DocMarker \o <<NL>> \o emit_string(last.msg)

(***************************************************************************)
(* C4: with exactly one item frame on the stack (Message or BlockMessage),  *)
(* a single-line emit appends a line break, the document marker, a line     *)
(* break and the message; the stack still holds exactly one item frame.     *)
(***************************************************************************)
C4_TopLevelSibling ==
    (EmittedSingle(1) /\ Len(last.before) = 1
        /\ Top(last.before) \in {"Message", "BlockMessage"}) =>
        /\ last.out = <<NL>> \o DocMarker \o <<NL>> \o emit_string(last.msg)
        /\ Suffix(sink, last.out)
        /\ Len(depth) = 1
        /\ Top(depth) \in {"Message", "BlockMessage"}

C4_Witness ==
    /\ EmittedSingle(1)
    /\ Len(last.before) = 1
    /\ Top(last.before) = "Message"
    /\ last.prev.emitted
    /\ Len(sink) > Len(last.out)

\* the pieces of a text between its line breaks
RECURSIVE SplitLines(_)
SplitLines(text) ==
    IF Contains(text, NL)
    THEN <<SplitOnce(text, <<NL>>).before>> \o SplitLines(SplitOnce(text, <<NL>>).after)
    ELSE <<text>>

\* str::lines: the lines of a text; a final line break does not open a line
Lines(text) ==
    IF text = <<>> THEN <<>>
    ELSE IF text[Len(text)] = NL THEN SplitLines(SubSeq(text, 1, Len(text) - 1))
    ELSE SplitLines(text)

\* every line on a line of its own, after n spaces
RECURSIVE BlockBody(_, _)
BlockBody(lines, n) ==
    IF lines = <<>> THEN <<>>
    ELSE <<NL>> \o Spaces(n) \o Head(lines) \o BlockBody(Tail(lines), n)

\* the step just taken rendered an entry holding a line break on a stack of
\* length >= n
EmittedBlock(n) == last.emitted /\ Contains(last.msg, NL) /\ Len(last.before) >= n

(***************************************************************************)
(* C5: at stack length d >= 2 a string message holding a line break is      *)
(* appended as a sequence item (marker after 2*(d-1) spaces) with a '|-'    *)
(* header, followed by every line of the message on a line of its own       *)
(* after exactly 2*d spaces.                                                *)
(***************************************************************************)
C5_BlockScalarLines ==
    EmittedBlock(2) =>
        Suffix(last.out,
               <<NL>> \o Spaces(2 * (Len(last.before) - 1)) \o <<"-", SP, "|", "-">>
               \o BlockBody(Lines(last.msg), 2 * Len(last.before)))

(***************************************************************************)
(* C6: on a BlockIndent top at stack length d, emit appends a line break,   *)
(* one item '- "" :' after 2*(d-2) spaces, a line break, then the entry as  *)
(* an item after 2*(d-1) spaces, and the top frame becomes BlockMessage,    *)
(* for single-line and multi-line entries alike.                            *)
(***************************************************************************)
C6_PhonyKeyAfterBlock ==
    (last.emitted /\ Top(last.before) = "BlockIndent") =>
        /\ Len(last.before) >= 2
        /\ Prefix(last.out,
                  <<NL>> \o Spaces(2 * (Len(last.before) - 2))
                  \o <<"-", SP, QUOTE, QUOTE, SP, ":", NL>>
                  \o Spaces(2 * (Len(last.before) - 1)) \o <<"-", SP>>)
        /\ SingleLine(last.msg) =>
              last.out = <<NL>> \o Spaces(2 * (Len(last.before) - 2))
                         \o <<"-", SP, QUOTE, QUOTE, SP, ":", NL>>
                         \o Item(last.before, last.msg)
        /\ depth = SetTop(last.before, "BlockMessage")
        /\ Suffix(sink, last.out)

C6_Witness ==
    /\ last.emitted
    /\ Top(last.before) = "BlockIndent"
    /\ Len(last.before) >= 3
    /\ SingleLine(last.msg)

\* n dedents in a row
RECURSIVE DedentN(_, _)
DedentN(d, n) == IF n <= 0 THEN d ELSE DedentN(dedent(d), n - 1)

(***************************************************************************)
(* C7: dedent removes exactly the top frame of a non-empty stack and leaves *)
(* an empty stack empty without failing; more dedents than frames leave the *)
(* stack empty, and an emit on the empty stack starts a new document.       *)
(***************************************************************************)
C7_DedentFloorsAtZero ==
    /\ last.op = "-" =>
          /\ pc = "running"
          /\ last.before = <<>> => depth = <<>>
          /\ last.before # <<>> => depth = SubSeq(last.before, 1, Len(last.before) - 1)
    /\ \A n \in (Len(depth) + 1)..(MaxDepth + 2) : DedentN(depth, n) = <<>>
    /\ (last.emitted /\ last.before = <<>>) =>
          /\ Prefix(last.out, <<NL>> \o DocMarker \o <<NL>>)
          /\ depth = <<"Message">>

C7_Witness ==
    /\ last.op = "-"
    /\ last.prev.op = "-"
    /\ last.before = <<>>
    /\ sink # <<>>

(***************************************************************************)
(* C8: from every reachable stack, reset and then emit returns the fragment *)
(* and leaves the stack that the same emit returns and leaves on a new      *)
(* tracker (the stack is all the state a tracker has, so every later        *)
(* operation behaves alike).                                                *)
(***************************************************************************)
C8_ResetThenEmitIsFresh ==
    /\ \A m \in Msgs :
          serialize(reset(depth), Entry(m)) = serialize(YmLogDefault.depth, Entry(m))
    /\ (last.emitted /\ last.prev.op = "r") =>
          /\ last.out = serialize(YmLogDefault.depth, Entry(last.msg)).out
          /\ depth = serialize(YmLogDefault.depth, Entry(last.msg)).depth

C8_Witness ==
    /\ last.emitted
    /\ last.prev.op = "r"
    /\ Contains(last.msg, NL)
    /\ sink = last.out

\* two stacks that no sequence of at most n op-codes (indent, dedent, reset,
\* emit of a message) tells apart by the fragments returned; an op-code that
\* leaves both stacks as they are leads to the same comparison and is not
\* followed
RECURSIVE SameBehaviour(_, _, _)
SameBehaviour(d1, d2, n) ==
    \/ d1 = d2
    \/ n = 0
    \/ /\ \E i1 \in {indent(d1)}, i2 \in {indent(d2)} :
             <<i1, i2>> = <<d1, d2>> \/ SameBehaviour(i1, i2, n - 1)
       /\ \E o1 \in {dedent(d1)}, o2 \in {dedent(d2)} :
             <<o1, o2>> = <<d1, d2>> \/ SameBehaviour(o1, o2, n - 1)
       /\ \E r1 \in {reset(d1)}, r2 \in {reset(d2)} :
             <<r1, r2>> = <<d1, d2>> \/ SameBehaviour(r1, r2, n - 1)
       /\ \A m \in Msgs :
             \E s1 \in {serialize(d1, Entry(m))}, s2 \in {serialize(d2, Entry(m))} :
                /\ s1.panic = s2.panic
                /\ s1.out = s2.out
                /\ SameBehaviour(s1.depth, s2.depth, n - 1)

Pending == {"Indent", "BlockIndent"}

(***************************************************************************)
(* C9 as stated: from every reachable stack, indent then dedent leaves a    *)
(* stack that behaves as the stack before the pair.                         *)
(***************************************************************************)
C9_IndentDedentNeutral == SameBehaviour(dedent(indent(depth)), depth, MaxFollow)

(***************************************************************************)
(* C9 amended: from every reachable stack whose top frame is not pending    *)
(* (not Indent, not BlockIndent), indent then dedent leaves a stack that    *)
(* behaves as the stack before the pair; after a '+' that pushed nothing    *)
(* followed by '-', the stack left behaves as the one the '+' found.        *)
(***************************************************************************)
C9_IndentDedentNeutralAfterItem ==
    /\ Top(depth) \notin Pending =>
          SameBehaviour(dedent(indent(depth)), depth, MaxFollow)
    /\ (last.op = "-" /\ last.prev.op = "+" /\ Top(last.before) \notin Pending) =>
          SameBehaviour(depth, last.before, MaxFollow)

C9_Witness ==
    /\ last.op = "-"
    /\ last.prev.op = "+"
    /\ last.before = <<"Reset">>
    /\ depth = <<>>

\* n indents in a row
RECURSIVE IndentN(_, _)
IndentN(d, n) == IF n <= 0 THEN d ELSE IndentN(indent(d), n - 1)

(***************************************************************************)
(* C10: indent pushes exactly one Indent frame on a Message top and one     *)
(* BlockIndent frame on a BlockMessage top, and leaves every other stack    *)
(* (empty, Reset, pending top) as it is; k >= 1 indents in a row leave what *)
(* one indent leaves.                                                       *)
(***************************************************************************)
C10_IndentOnce ==
    /\ last.op = "+" =>
          /\ Top(last.before) = "Message" => depth = Append(last.before, "Indent")
          /\ Top(last.before) = "BlockMessage" => depth = Append(last.before, "BlockIndent")
          /\ Top(last.before) \notin {"Message", "BlockMessage"} => depth = last.before
    /\ \A k \in 1..MaxFollow : IndentN(depth, k) = indent(depth)

C10_Witness ==
    /\ last.op = "+"
    /\ last.prev.op = "+"
    /\ Top(last.before) = "BlockIndent"
    /\ depth = last.before

\* the entry is not below the threshold
Passes(threshold, b) == LevelOrd(threshold) <= LevelOrd(EntryLevel(b))

\* the step just taken serialized its entry once, on the stack the ops before
\* it left, and appended the fragment to the sink
SerializedOnce ==
    /\ last.called
    /\ Len(sink) = last.sunk + Len(last.out)
    /\ Suffix(sink, last.out)
    /\ serialize(last.before, last.entry).panic = ~last.emitted
    /\ last.emitted => /\ last.out = serialize(last.before, last.entry).out
                       /\ depth = serialize(last.before, last.entry).depth

\* the step just taken serialized nothing
SerializedNothing == ~last.called /\ Len(sink) = last.sunk

(***************************************************************************)
(* C11: in a call whose entry passes the filter, every '_' serializes the   *)
(* entry once on the stack left by the ops before it, the other op-codes    *)
(* serialize nothing, and the end of the call serializes the entry once,    *)
(* after all ops, exactly when no '_' was among them.                       *)
(***************************************************************************)
C11_OncePerUnderscore ==
    /\ (last.op = "_" /\ Passes(log_level, last.entry)) =>
          SerializedOnce /\ has_printed
    /\ last.op \in {"+", "-", "r"} =>
          SerializedNothing /\ has_printed = last.printed
    /\ (last.op = "end" /\ Passes(log_level, last.entry) /\ ~last.printed) =>
          SerializedOnce
    /\ (last.op = "end" /\ last.printed) =>
          SerializedNothing /\ depth = last.before

C11_Witness ==
    /\ last.op = "_"
    /\ last.printed
    /\ last.emitted
    /\ last.prev.op = "+"
    /\ Top(last.before) = "Indent"

(***************************************************************************)
(* C12: a character that is no op-code ends the call in a panic at that     *)
(* character: the stack, the entry, the sink and has_printed are as the ops *)
(* to its left made them (a fragment written just before is in the sink),   *)
(* and no step follows it, neither an op nor the write at the end.          *)
(***************************************************************************)
C12_UnknownCharAborts ==
    /\ last.op = "?" =>
          /\ pc = "panicked"
          /\ depth = last.before
          /\ block = last.entry
          /\ has_printed = last.printed
          /\ SerializedNothing
          /\ last.prev.emitted => Suffix(sink, last.prev.out)
    /\ last.prev.op # "?"

C12_Witness ==
    /\ last.op = "?"
    /\ last.prev.op = "_"
    /\ last.prev.emitted
    /\ sink # <<>>
    /\ last.letters.n # "none"

\* the step just taken decided whether to write the entry
Decided == last.op = "_" \/ (last.op = "end" /\ ~last.printed)

PlainString(b) == b.message.t = "Value" /\ b.message.v.t = "String"

(***************************************************************************)
(* C14: 'k' on a plain string message holding ':' makes the message the     *)
(* pair (text before the first ':', text after it), so key, ':' and value   *)
(* make the message again; on every other message 'k' panics and the        *)
(* message is as it was, so a 'k' after a 'k' panics.                       *)
(***************************************************************************)
C14_SplitAtFirstColon ==
    /\ (last.op = "k" /\ PlainString(last.entry) /\ Contains(last.entry.message.v.s, ":")) =>
          /\ pc = "running"
          /\ block.message.t = "KeyValue"
          /\ block.message.k.t = "String" /\ block.message.v.t = "String"
          /\ ~Contains(block.message.k.s, ":")
          /\ block.message.k.s \o <<":">> \o block.message.v.s = last.entry.message.v.s
          /\ block = [last.entry EXCEPT !.message = block.message]
    /\ (last.op = "k" /\ ~(PlainString(last.entry) /\ Contains(last.entry.message.v.s, ":"))) =>
          pc = "panicked" /\ block = last.entry
    /\ (last.op = "k" /\ last.prev.op = "k") => pc = "panicked"
    /\ last.op = "k" => SerializedNothing /\ depth = last.before

C14_Witness ==
    /\ last.op = "k"
    /\ last.prev.op = "k"
    /\ pc = "panicked"
    /\ block.message.t = "KeyValue"
    /\ Contains(block.message.v.s, ":")

\* an entry without message, or with children under a mapping or key/value
\* message, or with such an entry among its children
RECURSIVE InvalidShape(_)
InvalidShape(b) ==
    \/ b.message.t = "None"
    \/ /\ b.children.some
       /\ \/ b.message.t = "KeyValue"
          \/ b.message.t = "Value" /\ b.message.v.t = "Mapping"
          \/ \E i \in 1..Len(b.children.list) : InvalidShape(b.children.list[i])

(***************************************************************************)
(* C15: serializing an entry of invalid shape panics with the sink and the  *)
(* stack as they were; handing such an entry to log(), or making one with   *)
(* 'k', raises nothing by itself.                                           *)
(***************************************************************************)
C15_InvalidEntryRejected ==
    /\ (last.called /\ InvalidShape(last.entry)) =>
          /\ pc = "panicked"
          /\ ~last.emitted
          /\ Len(sink) = last.sunk
          /\ depth = last.before
    /\ (last.op = "begin" /\ logger = "Some") => pc = "running"
    /\ (last.op = "k" /\ ~InvalidShape(last.entry) /\ InvalidShape(block)) => pc = "running"

C15_Witness ==
    /\ last.called
    /\ InvalidShape(last.entry)
    /\ last.entry.message.t = "KeyValue"
    /\ last.sunk > 0
    /\ last.before # <<>>

(***************************************************************************)
(* C17: with the threshold a new logger has, an entry logged without a      *)
(* level letter is written: the sink ends with its fragment.                *)
(***************************************************************************)
C17_DefaultLoggerWrites ==
    (Decided /\ logger = "Some" /\ log_level = YmLogDefault.log_level
             /\ last.entry.log_level = "None") =>
        /\ last.emitted
        /\ last.out # <<>>
        /\ Suffix(sink, last.out)

(***************************************************************************)
(* C18: an entry whose level was never set is written exactly when the      *)
(* threshold is not above Debug.                                            *)
(***************************************************************************)
C18_UnsetLevelIsDebug ==
    (Decided /\ logger = "Some" /\ last.entry.log_level = "None") =>
        (last.called <=> LevelOrd(log_level) <= LevelOrd("Debug"))

(***************************************************************************)
(* C19: after the emit of a message holding a line break the top frame is   *)
(* BlockMessage, whatever the stack was before.                             *)
(***************************************************************************)
C19_BlockEmitLeavesBlockItem ==
    (last.emitted /\ Contains(last.msg, NL)) => Top(depth) = "BlockMessage"

(***************************************************************************)
(* C19 amended: after the emit of a message holding a line break the top    *)
(* frame is BlockMessage when the top frame before was Message,             *)
(* BlockMessage, Indent or BlockIndent; on the empty stack and on a Reset   *)
(* frame the message is written as a quoted scalar on one line and the top  *)
(* frame is Message.                                                        *)
(***************************************************************************)
C19_BlockEmitFrame ==
    /\ (last.emitted /\ Contains(last.msg, NL)
           /\ Top(last.before) \in {"Message", "BlockMessage", "Indent", "BlockIndent"}) =>
          Top(depth) = "BlockMessage"
    /\ (last.emitted /\ Contains(last.msg, NL) /\ Top(last.before) \in {"Empty", "Reset"}) =>
          /\ Top(depth) = "Message"
          /\ last.out = <<NL>> \o DocMarker \o <<NL, QUOTE>> \o escape_body(last.msg) \o <<QUOTE>>

C19_Witness ==
    /\ last.emitted
    /\ Contains(last.msg, NL)
    /\ Top(last.before) = "Indent"
    /\ Top(depth) = "BlockMessage"
    /\ Len(depth) >= 3

(***************************************************************************)
(* C20: when an emit prefixes ':' (Indent on top of a stack of length d),   *)
(* the fragment before it is the item emitted at stack length d-1.          *)
(***************************************************************************)
C20_ColonOnParentLine ==
    (last.emitted /\ Top(last.before) = "Indent") =>
        last.parent = Len(last.before) - 1

\* the op-codes of one call applied to the logger one after another
RECURSIVE RunOps(_, _, _, _)
RunOps(st, b, ops, i) ==
    IF i > Len(ops) THEN st ELSE RunOps(ApplyOp(st, b, ops[i]), b, ops, i + 1)

\* one call run alone: has_printed starts false, the op-codes applied so far,
\* and the end of the call when the call has returned
RunCall(st, frame) ==
    IF frame.pc = "done"
    THEN ApplyOp(RunOps(LogState(st.depth, st.sink, FALSE), frame.block, frame.ops, 1),
                 frame.block, "end")
    ELSE RunOps(LogState(st.depth, st.sink, FALSE), frame.block, frame.ops, 1)

\* the calls run one after another in the given order
RECURSIVE RunInOrder(_, _, _)
RunInOrder(st, order, i) ==
    IF i > Len(order) THEN st
    ELSE RunInOrder(RunCall(st, mutex.frames[order[i]]), order, i + 1)

(***************************************************************************)
(* C16: at most one thread is inside log(), it is the holder of the lock,   *)
(* and the stack and the sink are always those of running the calls one     *)
(* after another in the order the lock was acquired, each with the op-codes *)
(* it has applied so far.                                                   *)
(***************************************************************************)
C16_CallsAreAtomic ==
    /\ \A c \in Callers : mutex.frames[c].pc = "running" => mutex.holder = c
    /\ \A c1, c2 \in Callers :
          (mutex.frames[c1].pc = "running" /\ mutex.frames[c2].pc = "running") => c1 = c2
    /\ depth = RunInOrder(LogState(<<>>, <<>>, FALSE), mutex.order, 1).depth
    /\ sink = RunInOrder(LogState(<<>>, <<>>, FALSE), mutex.order, 1).sink

C16_Witness ==
    /\ mutex.order = <<"c2", "c1">>
    /\ mutex.frames["c1"].pc = "running"
    /\ mutex.frames["c2"].pc = "done"
    /\ mutex.frames["c1"].ops = <<"+", "_">>
    /\ mutex.frames["c2"].ops = <<"_", "_">>
    /\ Len(depth) = 2

\* the stacks that at most n op-codes '+', '-' and 'r' of log() leave
RECURSIVE AfterOps(_, _)
AfterOps(d, n) ==
    IF n = 0 THEN {d}
    ELSE {d} \cup AfterOps(indent(d), n - 1) \cup AfterOps(dedent(d), n - 1)
             \cup AfterOps(reset(d), n - 1)

\* the fragment is a block scalar over several lines: the '|-' header of a
\* sequence item, or the '|+' of the top level, and lines under it
IsBlockScalar(out) ==
    /\ \/ Occurrences(out, <<"-", SP, "|", "-", NL>>) # {}
       \/ Prefix(out, <<NL, "|", "+", SP>>)
    /\ Cardinality(Occurrences(out, <<NL>>)) >= 2

(***************************************************************************)
(* C21: when the fragment just appended is a block scalar over several      *)
(* lines, then whatever '+', '-' and 'r' follow, the next fragment emitted  *)
(* does not start with ':'.                                                 *)
(***************************************************************************)
C21_NoColonAfterBlock ==
    (last.emitted /\ IsBlockScalar(last.out) /\ Suffix(sink, last.out)) =>
        \A d \in AfterOps(depth, MaxFollow), m \in Msgs :
            \E r \in {serialize(d, Entry(m))} : ~r.panic => ~Prefix(r.out, <<":">>)

(***************************************************************************)
(* A sink that can fail, and entries of every level.                       *)
(***************************************************************************)
\* Write::write_all returning Err: the sink accepted the first n bytes only
write_all_err(snk, bytes, n) == snk \o SubSeq(bytes, 1, n)

\* a failed write_all whose Err is unwrapped: the call panics
WrittenErrUnwrapped(r, snk, n) ==
    [called |-> TRUE, panic |-> TRUE, depth |-> r.depth,
     sink |-> IF r.panic THEN snk ELSE write_all_err(snk, r.out, n), out |-> r.out]

\* the write once serialize has returned and write_all has failed; the Err is
\* dropped by `let _ =`
WrittenErr(r, snk, n) ==
    [called |-> TRUE, panic |-> r.panic, depth |-> r.depth,
     sink |-> IF r.panic THEN snk ELSE write_all_err(snk, r.out, n), out |-> r.out]

\* YmLog::write on a sink that fails after n bytes
write_err(threshold, lg, d, snk, b, n) ==
    IF LevelOrd(threshold) > LevelOrd(EntryLevel(b)) THEN Skipped(d, snk)
    ELSE IF lg # "Some" THEN Skipped(d, snk)
    ELSE WrittenErr(serialize(d, b), snk, n)

\* '_' where the sink fails after n bytes of the fragment
OpWriteErr(n) ==
    /\ pc = "running"
    /\ Len(sink) <= MaxPartial
    /\ Passes(log_level, block)
    /\ n < Len(serialize(depth, block).out)
    /\ ApplyWrite("_", write_err(log_level, logger, depth, sink, block, n), "running")
    /\ has_printed' = TRUE
    /\ UNCHANGED <<log_level, logger, block, letters, mutex, formatter>>

\* the end of the op-codes where no '_' wrote the entry and the sink fails
\* after n bytes of the fragment
LogEndErr(n) ==
    /\ pc = "running"
    /\ ~has_printed
    /\ Len(sink) <= MaxPartial
    /\ Passes(log_level, block)
    /\ n < Len(serialize(depth, block).out)
    /\ ApplyWrite("end", write_err(log_level, logger, depth, sink, block, n), "idle")
    /\ block' = BlockNew
    /\ has_printed' = FALSE
    /\ letters' = NoLetters
    /\ UNCHANGED <<log_level, logger, mutex, formatter>>

\* the messages logged to the failing sink
SinkMsgs == { <<"a">>, <<"a", NL, "b">> }

\* string messages logged with the op-codes '+', '-', 'r' and '_' to a sink
\* that can fail, through a logger that writes every entry; a write is
\* explored while the sink holds at most MaxPartial bytes
SinkNext ==
    \/ SetOutput
    \/ \E msg \in SinkMsgs : LogBegin(set_message(BlockNew, msg))
    \/ OpIndent
    \/ OpDedent
    \/ OpReset
    \/ OpWriteTo(MaxPartial)
    \/ \E n \in 0..MaxPartial : OpWriteErr(n)
    \/ LogEndTo(MaxPartial)
    \/ \E n \in 0..MaxPartial : LogEndErr(n)

SpecSink == SharedInit /\ [][SinkNext]_vars

\* the message logged at every level
LevelMsgs == { <<"a">> }

\* a string message logged at every level under every threshold with the
\* op-codes '+', '-', 'r', '_' and the level letters
LevelsNext ==
    \/ SetOutput
    \/ \E level \in Levels : SetLevel(level)
    \/ \E msg \in LevelMsgs : LogBegin(set_message(BlockNew, msg))
    \/ OpIndent
    \/ OpDedent
    \/ OpReset
    \/ \E letter \in LevelLetters : OpLevel(letter)
    \/ OpWriteTo(MaxOpsSink)
    \/ LogEndTo(MaxOpsSink)

SpecLevels == Init /\ [][LevelsNext]_vars

\* the stack an op-code '+', '-' or 'r' leaves
TrackerOp(op, d) ==
    CASE op = "+" -> indent(d)
      [] op = "-" -> dedent(d)
      [] op = "r" -> reset(d)

(***************************************************************************)
(* C22: the levels are ordered Trace < Debug < Info < Warn < Error; a '_'   *)
(* or an end of call without earlier '_' serializes the entry exactly when  *)
(* the entry's level is not below the threshold; a write that is dropped    *)
(* leaves the sink and the stack as they were, a dropped '_' still sets     *)
(* has_printed so that the end of the call writes nothing, and '+', '-'     *)
(* and 'r' change the stack as in any other call.                           *)
(***************************************************************************)
C22_FilterByLevel ==
    /\ LevelOrd("Trace") < LevelOrd("Debug") /\ LevelOrd("Debug") < LevelOrd("Info")
    /\ LevelOrd("Info") < LevelOrd("Warn") /\ LevelOrd("Warn") < LevelOrd("Error")
    /\ Decided =>
          (last.called <=> LevelOrd(log_level) <= LevelOrd(EntryLevel(last.entry)))
    /\ (Decided /\ LevelOrd(EntryLevel(last.entry)) < LevelOrd(log_level)) =>
          /\ ~last.called
          /\ last.out = <<>>
          /\ Len(sink) = last.sunk
          /\ depth = last.before
    /\ last.op = "_" => has_printed /\ pc = "running"
    /\ (last.op = "end" /\ last.printed) => SerializedNothing /\ depth = last.before
    /\ last.op \in {"+", "-", "r"} =>
          depth = TrackerOp(last.op, last.before) /\ SerializedNothing

C22_Witness ==
    /\ last.op = "+"
    /\ last.prev.op = "_"
    /\ ~last.prev.emitted
    /\ last.printed
    /\ last.entry.log_level = "Debug"
    /\ log_level = "Info"
    /\ depth # last.before
    /\ sink # <<>>

\* the step just taken serialized its entry and the sink did not accept the
\* whole fragment
Rejected == last.called /\ Len(sink) < last.sunk + Len(last.out)

(***************************************************************************)
(* C23: when the sink fails on a fragment, the call does not panic: after   *)
(* a '_' the loop over the op-codes goes on, after the write at the end the *)
(* call returns; the stack is the one serialize leaves when the fragment is *)
(* written, has_printed is set by the '_', and the sink holds at most a     *)
(* part of the fragment.                                                    *)
(***************************************************************************)
C23_SinkErrorSwallowed ==
    Rejected =>
        /\ last.emitted
        /\ last.op = "_" => pc = "running" /\ has_printed
        /\ last.op = "end" => pc = "idle"
        /\ \E w \in {write(log_level, logger, last.before, <<>>, last.entry)} :
              w.called /\ ~w.panic /\ last.out = w.out /\ depth = w.depth
        /\ \E n \in 0..(Len(last.out) - 1) : Len(sink) = last.sunk + n

C23_Witness ==
    /\ Rejected
    /\ last.op = "_"
    /\ depth = <<"Message", "BlockMessage">>
    /\ last.before = <<"Message", "Indent">>
    /\ sink = <<>>

(***************************************************************************)
(* The formatter on its own: strings handed to the functions of Style and  *)
(* to a YamlFormatter.                                                     *)
(***************************************************************************)
\* the characters of the strings formatted
FormatChars == {"a", "b", SP, NL}

\* the strings of at most n characters
RECURSIVE Strings(_)
Strings(n) ==
    IF n = 0 THEN {<<>>}
    ELSE Strings(n - 1) \cup {Append(t, c) : t \in Strings(n - 1), c \in FormatChars}

FormatValues == Strings(MaxValue)

\* the indents the callers choose
Indents == {IndentSpace(0), IndentSpace(1), IndentDefault, IndentTab}

\* the styles the callers choose
Styles ==
    {StyleDefault, Style("Plain", "None")}
    \cup {Style(t, chomp) : t \in {"Folded", "Literal"}, chomp \in {"Clip", "Keep"}}

\* a call of the formatter and what it returned
Call(fn, nest, chomp, idt, wrap_at, res, style) ==
    [fn |-> fn, depth |-> nest, chomp |-> chomp, indent |-> idt, wrap_at |-> wrap_at,
     panic |-> res.panic, out |-> res.out, style |-> style]

\* the program holds a string and a new YamlFormatter
FormatInit ==
    /\ depth = YmLogDefault.depth
    /\ log_level = YmLogDefault.log_level
    /\ logger = YmLogDefault.logger
    /\ sink = <<>>
    /\ pc = "idle"
    /\ block = BlockNew
    /\ has_printed = FALSE
    /\ letters = NoLetters
    /\ mutex = MutexFree
    /\ last = [op |-> "new", called |-> FALSE, emitted |-> FALSE, before |-> <<>>,
               parent |-> 0, entry |-> BlockNew, printed |-> FALSE, sunk |-> 0,
               letters |-> NoLetters, msg |-> <<>>, out |-> <<>>,
               prev |-> [op |-> "new", emitted |-> FALSE, msg |-> <<>>, out |-> <<>>]]
    /\ formatter \in {[fmt |-> YamlFormatterDefault, value |-> v, build |-> b, call |-> NoCall] :
                         v \in FormatValues, b \in Builds}

\* Style::fold_string on the string; the functions of Style take nothing from
\* a YamlFormatter and are explored beside a new one
FoldString(nest, chomp, idt, wrap_at) ==
    /\ ~formatter.call.panic
    /\ formatter.fmt = YamlFormatterDefault
    /\ formatter' = [formatter EXCEPT !.call =
                        Call("fold_string", nest, chomp, idt, wrap_at,
                             fold_string(formatter.value, nest, chomp, idt, wrap_at,
                                         formatter.build),
                             Style("Folded", chomp))]
    /\ UNCHANGED <<depth, log_level, logger, sink, pc, block, has_printed, last, letters, mutex>>

\* Style::literal_string on the string
LiteralString(nest, chomp, idt, wrap_at) ==
    /\ ~formatter.call.panic
    /\ formatter.fmt = YamlFormatterDefault
    /\ formatter' = [formatter EXCEPT !.call =
                        Call("literal_string", nest, chomp, idt, wrap_at,
                             literal_string(formatter.value, nest, chomp, idt, wrap_at),
                             Style("Literal", chomp))]
    /\ UNCHANGED <<depth, log_level, logger, sink, pc, block, has_printed, last, letters, mutex>>

\* Style::guess_style on the string
GuessStyle ==
    /\ ~formatter.call.panic
    /\ formatter.fmt = YamlFormatterDefault
    /\ formatter' = [formatter EXCEPT !.call =
                        Call("guess_style", 0, "None", IndentDefault, 0,
                             [panic |-> FALSE, out |-> <<>>], guess_style(formatter.value))]
    /\ UNCHANGED <<depth, log_level, logger, sink, pc, block, has_printed, last, letters, mutex>>

\* YamlFormatter::set_indent
SetIndent(idt) ==
    /\ ~formatter.call.panic
    /\ formatter' = [formatter EXCEPT !.fmt.indent = idt, !.call = NoCall]
    /\ UNCHANGED <<depth, log_level, logger, sink, pc, block, has_printed, last, letters, mutex>>

\* YamlFormatter::set_style
SetStyle(style) ==
    /\ ~formatter.call.panic
    /\ formatter' = [formatter EXCEPT !.fmt.multiline_style = style, !.call = NoCall]
    /\ UNCHANGED <<depth, log_level, logger, sink, pc, block, has_printed, last, letters, mutex>>

\* the formatter and the call after stringify
AfterStringify(r, idt) ==
    formatter' = [formatter EXCEPT !.fmt = r.fmt,
                                   !.call = Call("stringify", unwrap_or(idt, 0), "None",
                                                 formatter.fmt.indent,
                                                 unwrap_or(formatter.fmt.wrap_at, WrapDefault),
                                                 r.res, formatter.fmt.multiline_style)]

\* YamlFormatter::stringify on the string
Stringify(idt) ==
    /\ ~formatter.call.panic
    /\ AfterStringify(stringify(formatter.fmt, formatter.value, idt, formatter.build), idt)
    /\ UNCHANGED <<depth, log_level, logger, sink, pc, block, has_printed, last, letters, mutex>>

\* the calls a program makes on one string
FormatNext ==
    \/ \E nest \in 0..MaxNest, chomp \in Chomps, idt \in Indents, wrap_at \in 1..MaxWrap :
          FoldString(nest, chomp, idt, wrap_at)
    \/ \E nest \in 0..MaxNest, chomp \in Chomps, idt \in Indents, wrap_at \in 1..MaxWrap :
          LiteralString(nest, chomp, idt, wrap_at)
    \/ GuessStyle
    \/ \E idt \in Indents : SetIndent(idt)
    \/ \E style \in Styles : SetStyle(style)
    \/ \E idt \in {OptionNone} \cup {OptionSome(n) : n \in 0..MaxNest} : Stringify(idt)

SpecFormat == FormatInit /\ [][FormatNext]_vars

\* the header of a block scalar: the style's sign and the chomping indicator
Header(sign, chomp) == <<SP, sign>> \o ChompText(chomp) \o <<NL>>

\* the text after the first n characters
Rest(text, n) == SubSeq(text, n + 1, Len(text))

\* the words of a text: its longest runs without space and line break
Words(text) ==
    {SubSeq(text, i, j) : <<i, j>> \in
        {p \in (1..Len(text)) \X (1..Len(text)) :
            /\ p[1] <= p[2]
            /\ \A k \in p[1]..p[2] : text[k] \notin {SP, NL}
            /\ p[1] = 1 \/ text[p[1] - 1] \in {SP, NL}
            /\ p[2] = Len(text) \/ text[p[2] + 1] \in {SP, NL}}}

\* a body that keeps a text line by line: every line of the text is in it and
\* it has no fewer line breaks than the text
KeepsLines(body, text) ==
    /\ \A i \in 1..Len(SplitLines(text)) :
          SplitLines(text)[i] = <<>> \/ Occurrences(body, SplitLines(text)[i]) # {}
    /\ Cardinality(Occurrences(body, <<NL>>)) >= Cardinality(Occurrences(text, <<NL>>))

(***************************************************************************)
(* C24: literal_string returns the header ' |' with the chomping indicator  *)
(* and a line break, followed by the text line by line, whatever the        *)
(* string, the chomping mode and the wrap width; so does stringify under    *)
(* Style::Literal.                                                          *)
(***************************************************************************)
C24_LiteralKeepsText ==
    /\ formatter.call.fn = "literal_string" =>
          /\ ~formatter.call.panic
          /\ Prefix(formatter.call.out, Header("|", formatter.call.chomp))
          /\ KeepsLines(Rest(formatter.call.out, Len(Header("|", formatter.call.chomp))),
                        formatter.value)
    /\ (formatter.call.fn = "stringify" /\ formatter.call.style.t = "Literal") =>
          /\ ~formatter.call.panic
          /\ KeepsLines(formatter.call.out, formatter.value)

\* the indentation fold_string was called with
CallIndent == Repeat(IndentText(formatter.call.indent), formatter.call.depth + 1)

\* the string starts with a word, followed by a space, that reaches the wrap
\* width on the first line
FirstWordWraps ==
    /\ Contains(formatter.value, SP)
    /\ SplitOnce(formatter.value, <<SP>>).before \in Words(formatter.value)
    /\ Len(CallIndent) + Len(SplitOnce(formatter.value, <<SP>>).before)
          >= formatter.call.wrap_at

(***************************************************************************)
(* C25: fold_string returns every word of the string whole; when the first  *)
(* word, at its space, reaches the wrap width with the indentation, a line  *)
(* break is written after the header and before that word.                  *)
(***************************************************************************)
C25_FoldKeepsWords ==
    (formatter.call.fn = "fold_string" /\ ~formatter.call.panic) =>
        /\ \A w \in Words(formatter.value) :
              Occurrences(Rest(formatter.call.out, Len(Header(">", formatter.call.chomp))), w)
                 # {}
        /\ FirstWordWraps =>
              Prefix(Rest(formatter.call.out, Len(Header(">", formatter.call.chomp))),
                     <<NL>> \o CallIndent \o SplitOnce(formatter.value, <<SP>>).before)

\* string messages logged with the op-codes '+', '-', 'r' and '_' through a
\* logger that writes every entry
TrackerNext ==
    \/ SetOutput
    \/ \E msg \in Msgs : LogBegin(set_message(BlockNew, msg))
    \/ OpIndent
    \/ OpDedent
    \/ OpReset
    \/ OpWrite
    \/ LogEnd

SpecTracker == SharedInit /\ [][TrackerNext]_vars

\* the frames of the items written
Items == {"Message", "BlockMessage"}

(***************************************************************************)
(* C26: every frame below the top is Message or BlockMessage; a pending     *)
(* frame is the top of a stack of at least two frames, Indent directly      *)
(* above Message and BlockIndent directly above BlockMessage; Reset is      *)
(* alone on the stack; and a serialize that was entered returned, so the    *)
(* rendering never met an empty stack.                                      *)
(***************************************************************************)
C26_StackWellFormed ==
    /\ \A i \in 1..(Len(depth) - 1) : depth[i] \in Items
    /\ Top(depth) \in Pending => Len(depth) >= 2
    /\ Top(depth) = "Indent" => depth[Len(depth) - 1] = "Message"
    /\ Top(depth) = "BlockIndent" => depth[Len(depth) - 1] = "BlockMessage"
    /\ (\E i \in 1..Len(depth) : depth[i] = "Reset") => depth = <<"Reset">>
    /\ last.called => last.emitted
    /\ (last.called /\ Top(last.before) = "BlockIndent") => Len(last.before) - 2 >= 0

C26_Witness ==
    /\ last.op = "+"
    /\ last.prev.op = "-"
    /\ depth = <<"Message", "BlockMessage", "BlockIndent">>

\* the frames serialize has an arm for
Implemented == {"Reset", "Message", "BlockMessage", "Indent", "BlockIndent"}

\* the step just taken wrote an entry that 'k' had split
EmittedSplit == last.emitted /\ last.entry.message.t = "KeyValue"

(***************************************************************************)
(* C27: the stack holds only Reset, Message, BlockMessage, Indent and       *)
(* BlockIndent frames, never KeyValue or None; serialize is never entered   *)
(* on another top frame; and after the emit of an entry split by 'k' the    *)
(* top frame is Message.                                                    *)
(***************************************************************************)
C27_SplitLeavesMessage ==
    /\ \A i \in 1..Len(depth) : depth[i] \in Implemented
    /\ last.called => Top(last.before) \in Implemented \cup {"Empty"}
    /\ EmittedSplit => Top(depth) = "Message"

(***************************************************************************)
(* C27 amended: the stack holds only Reset, Message, BlockMessage, Indent   *)
(* and BlockIndent frames, never KeyValue or None; serialize is never       *)
(* entered on another top frame; after the emit of an entry split by 'k'    *)
(* the top frame is Message, except that it is BlockMessage when the top    *)
(* frame before the emit was BlockMessage or BlockIndent; the frames below  *)
(* the top are as before.                                                   *)
(***************************************************************************)
C27_OnlyImplementedFrames ==
    /\ \A i \in 1..Len(depth) : depth[i] \in Implemented
    /\ last.called => Top(last.before) \in Implemented \cup {"Empty"}
    /\ EmittedSplit =>
          /\ Top(depth) = IF Top(last.before) \in {"BlockMessage", "BlockIndent"}
                          THEN "BlockMessage" ELSE "Message"
          /\ SubSeq(depth, 1, Len(depth) - 1) = SubSeq(last.before, 1, Len(last.before) - 1)

C27_Witness ==
    /\ EmittedSplit
    /\ last.prev.op = "k"
    /\ last.before = <<"BlockMessage">>
    /\ depth = <<"BlockMessage">>
    /\ Suffix(sink, <<"k", ":", SP, QUOTE, "v", ":", QUOTE>>)

\* the frames under the top frame
Below(d) == SubSeq(d, 1, Len(d) - 1)

(***************************************************************************)
(* C28: an emit leaves a stack of the same length, of length 1 when the     *)
(* stack was empty; its top frame is Message or BlockMessage and the frames *)
(* below the top are as before; an indent directly after an emit adds       *)
(* exactly one frame, a pending one.                                        *)
(***************************************************************************)
C28_EmitKeepsLength ==
    /\ last.emitted =>
          /\ Len(depth) = IF last.before = <<>> THEN 1 ELSE Len(last.before)
          /\ Top(depth) \in Items
          /\ Below(depth) = Below(last.before)
          /\ Len(indent(depth)) = Len(depth) + 1
          /\ Below(indent(depth)) = depth
    /\ (last.op = "+" /\ last.prev.emitted) =>
          /\ Len(depth) = Len(last.before) + 1
          /\ Below(depth) = last.before
          /\ Top(depth) \in Pending

C28_Witness ==
    /\ last.op = "+"
    /\ last.prev.emitted
    /\ last.prev.op = "_"
    /\ depth = <<"Message", "BlockMessage", "BlockIndent">>

\* the step just taken wrote a single-line entry as the next item after a
\* block item of the same level
SingleAfterBlock == EmittedSingle(1) /\ Top(last.before) = "BlockMessage"

(***************************************************************************)
(* C29: a BlockMessage frame stays BlockMessage at its place in every step  *)
(* but a dedent that pops it and a reset; an emit on a BlockMessage top, of *)
(* a single-line entry too, leaves the stack as it was; an indent after a   *)
(* single-line item that follows a block item pushes BlockIndent, and the   *)
(* next emit opens with the item '- "" :' and not with ':'.                 *)
(***************************************************************************)
C29_BlockFramePersists ==
    /\ last.op # "r" =>
          \A i \in 1..Len(last.before) :
              (last.before[i] = "BlockMessage" /\ ~(last.op = "-" /\ i = Len(last.before))) =>
                  i <= Len(depth) /\ depth[i] = "BlockMessage"
    /\ (last.emitted /\ Top(last.before) = "BlockMessage") => depth = last.before
    /\ SingleAfterBlock =>
          /\ indent(depth) = Append(depth, "BlockIndent")
          /\ \A m \in Msgs :
                /\ ~serialize(indent(depth), Entry(m)).panic
                /\ Prefix(serialize(indent(depth), Entry(m)).out,
                          <<NL>> \o Spaces(2 * (Len(depth) - 1)) \o PhonyKey)
    /\ (last.op = "+" /\ last.prev.emitted /\ SingleLine(last.prev.msg)
           /\ Top(last.before) = "BlockMessage") =>
          depth = Append(last.before, "BlockIndent")

C29_Witness ==
    /\ SingleAfterBlock
    /\ last.op = "_"
    /\ depth = <<"Message", "BlockMessage", "BlockMessage">>

====
